---- MODULE Spec2Model ----
(***************************************************************************)
(* A model of salted_demo.py: the Version Digest function                  *)
(* get_salted_version, and SaltedTask.salt_target, over a small workflow   *)
(* of luigi tasks.                                                         *)
(*                                                                         *)
(* Texts (class sources, messages, digests, paths) are strings; a          *)
(* character of a string s is SubSeq(s, i, i).                             *)
(***************************************************************************)
EXTENDS Integers, Sequences, FiniteSets, TLC

(***************************************************************************)
(* Bounds of the model.                                                    *)
(***************************************************************************)
\* Number of hex characters of a digest (hexdigest() of sha256 has 64).
DigestLen == 4
\* Number of task nodes of the workflow.
MaxNodes == 3
\* Depth of nested calls the interpreter allows before RecursionError
\* (sys.getrecursionlimit() is 1000 in CPython).
RecursionLimit == 3

(***************************************************************************)
(* Characters, in code point order (sorted() compares names by code point) *)
(***************************************************************************)
Alphabet == " '(),-.0123456789=ABCDEFGHIJKLMNOPQRSTUVWXYZ_abcdefghijklmnopqrstuvwxyz{}"

Chr(s, i) == SubSeq(s, i, i)

Ord == [c \in {Chr(Alphabet, i) : i \in 1..Len(Alphabet)} |->
          CHOOSE i \in 1..Len(Alphabet) : Chr(Alphabet, i) = c]

HexDigits == "0123456789abcdef"

(***************************************************************************)
(* hashlib.sha256(msg.encode()).hexdigest(), scaled to DigestLen hex       *)
(* characters: a fixed-width, deterministic function of the whole message. *)
(***************************************************************************)
RECURSIVE Pow16(_)
Pow16(n) == IF n = 0 THEN 1 ELSE 16 * Pow16(n - 1)

\* Number of values of a digest.
Modulus == Pow16(DigestLen)

\* The message is absorbed as a tree of blocks: the value of a block is
\* combined from the values of its two halves, the left one first.
RECURSIVE Absorb(_, _, _)
Absorb(s, lo, hi) ==
  IF lo > hi THEN 0
  ELSE IF lo = hi THEN Ord[Chr(s, lo)]
  ELSE LET mid == (lo + hi) \div 2
       IN  (Absorb(s, lo, mid) * 31 + Absorb(s, mid + 1, hi) * 17 + 7) % Modulus

RECURSIVE hexdigest(_, _)
hexdigest(n, w) ==
  IF w = 0 THEN "" ELSE hexdigest(n \div 16, w - 1) \o Chr(HexDigits, (n % 16) + 1)

\* (the message is a bound variable below, so that it is built once)
sha256(msg) ==
  CHOOSE d \in {hexdigest((Absorb(m, 1, Len(m)) * 31 + Len(m) + 1) % Modulus, DigestLen) :
                  m \in {msg}} : TRUE

(***************************************************************************)
(* Python values of parameters and their repr().                           *)
(***************************************************************************)
PyDate(y, m, d) == [t |-> "date", y |-> y, m |-> m, d |-> d]
PyInt(v) == [t |-> "int", v |-> v]
PyStr(v) == [t |-> "str", v |-> v]
PyBool(v) == [t |-> "bool", v |-> v]

RECURSIVE Digits(_)
Digits(n) ==
  IF n < 10 THEN Chr(HexDigits, n + 1)
  ELSE Digits(n \div 10) \o Chr(HexDigits, (n % 10) + 1)

\* str() of an int
IntStr(n) == IF n < 0 THEN "-" \o Digits(0 - n) ELSE Digits(n)

repr(x) ==
  CASE x.t = "date" -> "datetime.date(" \o IntStr(x.y) \o ", " \o IntStr(x.m)
                          \o ", " \o IntStr(x.d) \o ")"
    [] x.t = "int"  -> IntStr(x.v)
    [] x.t = "str"  -> "'" \o x.v \o "'"
    [] x.t = "bool" -> IF x.v THEN "True" ELSE "False"

(***************************************************************************)
(* sorted(task.get_params()): the (name, Parameter) pairs by name.         *)
(***************************************************************************)
RECURSIVE StrLess(_, _)
StrLess(a, b) ==
  IF Len(b) = 0 THEN FALSE
  ELSE IF Len(a) = 0 THEN TRUE
  ELSE IF Chr(a, 1) = Chr(b, 1) THEN StrLess(Tail(a), Tail(b))
  ELSE Ord[Chr(a, 1)] < Ord[Chr(b, 1)]

RECURSIVE Insert(_, _)
Insert(p, s) ==
  IF s = <<>> THEN <<p>>
  ELSE IF StrLess(p.name, Head(s).name) THEN <<p>> \o s
  ELSE <<Head(s)>> \o Insert(p, Tail(s))

\* (variant for C1: the parameters are taken in declaration order)
unsorted(params) == params

RECURSIVE sorted(_)
sorted(params) ==
  IF params = <<>> THEN <<>> ELSE Insert(Head(params), sorted(Tail(params)))

(***************************************************************************)
(* ','.join(parts)                                                         *)
(***************************************************************************)
RECURSIVE join(_, _)
join(sep, parts) ==
  IF parts = <<>> THEN ""
  ELSE IF Len(parts) = 1 THEN Head(parts)
  ELSE Head(parts) \o sep \o join(sep, Tail(parts))

\* str() of a value
Pad2(n) == IF n < 10 THEN "0" \o IntStr(n) ELSE IntStr(n)

str(x) ==
  CASE x.t = "date" -> IntStr(x.y) \o "-" \o Pad2(x.m) \o "-" \o Pad2(x.d)
    [] x.t = "str"  -> x.v
    [] OTHER        -> repr(x)

\* (variant for C6: the value is rendered with str(), not repr())
ParamPairStr(p) == p.name \o "=" \o str(p.value)

\* '{}={}'.format(param_name, repr(task.param_kwargs[param_name]))
ParamPair(p) == p.name \o "=" \o repr(p.value)

\* the comprehension of lines 58-60: significant parameters, sorted by name
RECURSIVE SignificantPairs(_)
SignificantPairs(ps) ==
  IF ps = <<>> THEN <<>>
  ELSE (IF Head(ps).significant THEN <<ParamPair(Head(ps))>> ELSE <<>>)
         \o SignificantPairs(Tail(ps))

(***************************************************************************)
(* The workflow.  A task node is [cls, params, requires]:                  *)
(*   cls      the name of task.__class__                                   *)
(*   params   task.get_params() with task.param_kwargs, in declaration     *)
(*            order: records [name, value, significant]                    *)
(*   requires flatten(task.requires()): node numbers, in enumeration order *)
(* source[c] is inspect.getsource of class c.                              *)
(***************************************************************************)
VARIABLES source, task, old, result, stack, pc

vars == <<source, task, old, result, stack, pc>>

Nodes == 1..MaxNodes

ClassNames == {"SaltedTask", "Streams", "SVCTask", "TrainDigits", "PredictDigits"}

\* The classes of this module a class inherits from, nearest first.
Bases(c) ==
  CASE c = "SVCTask"       -> <<"SaltedTask">>
    [] c = "TrainDigits"   -> <<"SVCTask", "SaltedTask">>
    [] c = "PredictDigits" -> <<"SVCTask", "SaltedTask">>
    [] OTHER               -> <<>>

\* Whether instances of c have salt_target and the three salt_* parameters.
IsSalted(c) == c = "SaltedTask" \/ \E i \in 1..Len(Bases(c)) : Bases(c)[i] = "SaltedTask"

Param(name, value, significant) ==
  [name |-> name, value |-> value, significant |-> significant]

\* The parameters SaltedTask declares, with their defaults; a luigi
\* Parameter is significant unless declared otherwise.
SaltedParams ==
  << Param("salt_workflow", PyBool(TRUE), TRUE),
     Param("salt_parameters", PyBool(FALSE), TRUE),
     Param("salt_length", PyInt(6), TRUE) >>

\* A task of class c with its default parameters.
NewTask(c, reqs) ==
  [cls |-> c,
   params |-> CASE c = "Streams" -> << Param("date", PyDate(2018, 3, 7), TRUE) >>
                [] IsSalted(c)   -> SaltedParams \o << Param("kernel", PyStr("rbf"), TRUE) >>
                [] OTHER         -> << >>,
   requires |-> reqs]

\* inspect.getsource(task.__class__): the text of the class's own block.
getsource(src, c) == src[c]

\* The text of everything a task of class c executes: its class and the
\* classes it inherits from.
Logic(src, c) == <<src[c]>> \o [i \in 1..Len(Bases(c)) |-> src[Bases(c)[i]]]

\* Lines 47-62: ','.join([source] + [name=repr(value), ...])
self_message(src, t) ==
  join(",", <<getsource(src, t.cls)>> \o SignificantPairs(sorted(t.params)))

RECURSIVE get_salted_version(_, _, _)
RECURSIVE lineage_message(_, _, _)

\* (variant for C2: a requirement is salted with its own message only, not
\* with its lineage)
lineage_direct(src, tk, reqs) ==
  join("", [i \in 1..Len(reqs) |-> sha256(self_message(src, tk[reqs[i]]))])

\* (variant for C8: the requirements are taken in a canonical order)
lineage_canonical(src, tk, reqs) ==
  IF Len(reqs) = 2 /\ reqs[1] > reqs[2]
  THEN get_salted_version(src, tk, reqs[2]) \o get_salted_version(src, tk, reqs[1])
  ELSE join("", [i \in 1..Len(reqs) |-> get_salted_version(src, tk, reqs[i])])

\* Lines 41-44: the digests of the requirements, in enumeration order.
lineage_message(src, tk, reqs) ==
  IF reqs = <<>> THEN ""
  ELSE get_salted_version(src, tk, Head(reqs)) \o lineage_message(src, tk, Tail(reqs))

\* The message line 63 hashes.
message(src, tk, n) ==
  lineage_message(src, tk, tk[n].requires) \o self_message(src, tk[n])

get_salted_version(src, tk, n) == sha256(message(src, tk, n))

(***************************************************************************)
(* SaltedTask.salt_target                                                  *)
(***************************************************************************)
Min(a, b) == IF a < b THEN a ELSE b
Max(a, b) == IF a < b THEN b ELSE a

\* (variant for C5: the slice stops one character early)
SliceShort(s, k) == SubSeq(s, 1, Min(k, Len(s)) - 1)

\* s[:k] of Python
SliceTo(s, k) ==
  IF k >= 0 THEN SubSeq(s, 1, Min(k, Len(s)))
  ELSE SubSeq(s, 1, Max(0, Len(s) + k))

\* file_pattern.format(salt=salt, self=self), for patterns whose only
\* replacement field is {salt}
RECURSIVE format(_, _)
format(pattern, salt) ==
  IF Len(pattern) = 0 THEN ""
  ELSE IF Len(pattern) >= 6 /\ SubSeq(pattern, 1, 6) = "{salt}"
       THEN salt \o format(SubSeq(pattern, 7, Len(pattern)), salt)
  ELSE Chr(pattern, 1) \o format(Tail(pattern), salt)

\* self.<name> of a task
Attr(t, name) == (CHOOSE i \in 1..Len(t.params) : t.params[i].name = name)

ParamValue(t, name) == t.params[Attr(t, name)].value

\* Lines 95-97; the target is identified with its path.
salt_target(src, tk, n, file_pattern) ==
  format(file_pattern,
         SliceTo(get_salted_version(src, tk, n), ParamValue(tk[n], "salt_length").v))

(***************************************************************************)
(* The workflow under development.  source and task are the current        *)
(* definition, old the definition before the last edit, result what the    *)
(* last call on the current definition returned.                           *)
(***************************************************************************)
NoCall == [op |-> "none"]

\* Source texts a class may be given.
Texts == {"L", "T", "T,kernel='rbf'"}

\* Values a parameter may be given.
ValuesOf(name) ==
  CASE name = "date"        -> {PyDate(2018, 3, 7), PyDate(2018, 3, 8)}
    [] name = "salt_length" -> {PyInt(1), PyInt(DigestLen - 1), PyInt(6), PyInt(DigestLen + 2)}
    [] name = "kernel"      -> {PyStr("rbf"), PyStr("linear")}
    [] OTHER                -> {PyBool(TRUE), PyBool(FALSE)}

\* Requirement lists of node n: earlier nodes only, so the graph is acyclic.
RequiresOf(n) ==
  {<<>>} \cup {<<a>> : a \in 1..(n - 1)}
         \cup {<<a, b>> : a \in 1..(n - 1), b \in 1..(n - 1)}

\* File patterns handed to salt_target.
Patterns == {"out-{salt}.csv"}

Reverse(s) == [i \in 1..Len(s) |-> s[Len(s) + 1 - i]]

InitSource ==
  [c \in ClassNames |->
     CASE c = "SaltedTask"    -> "S"
       [] c = "Streams"       -> "L"
       [] c = "SVCTask"       -> "V"
       [] c = "TrainDigits"   -> "T"
       [] c = "PredictDigits" -> "P"]

InitTask ==
  [n \in Nodes |->
     CASE n = 2 -> NewTask("TrainDigits", <<1>>)
       [] n = 3 -> NewTask("PredictDigits", <<2>>)
       [] OTHER -> NewTask("Streams", <<>>)]

\* The node whose class text, requirements and significance of the kernel
\* parameter differ between the workflows the model starts from.
LastNode == Min(3, MaxNodes)

Init ==
  /\ \E t \in {InitSource["PredictDigits"], "T,kernel='rbf'"} :
       source = [InitSource EXCEPT !["PredictDigits"] = t]
  /\ \E sig \in BOOLEAN, r \in {<<1>>, <<2>>, <<1, 2>>} :
       /\ task = [InitTask EXCEPT
                    ![LastNode].requires = r,
                    ![LastNode].params[Len(InitTask[LastNode].params)].significant = sig]
  /\ old = [source |-> source, task |-> task]
  /\ result = NoCall
  /\ stack = <<>>
  /\ pc = "idle"

\* The definition as a whole.
Current == [source |-> source, task |-> task]

\* What every edit of the definition does besides the edit itself: one
\* edit is made to the definition, and the definition before it is kept.
Edited ==
  /\ old = Current
  /\ old' = Current
  /\ result' = NoCall
  /\ UNCHANGED <<stack, pc>>

\* The text of class c is changed.
EditSource ==
  \E c \in ClassNames, t \in Texts :
    /\ t # source[c]
    /\ source' = [source EXCEPT ![c] = t]
    /\ UNCHANGED task
    /\ Edited

\* Node n is instantiated with another value of its i-th parameter.
SetParam ==
  \E n \in Nodes :
    \E i \in 1..Len(task[n].params) :
      \E v \in ValuesOf(task[n].params[i].name) :
        /\ v # task[n].params[i].value
        /\ task' = [task EXCEPT ![n].params[i].value = v]
        /\ UNCHANGED source
        /\ Edited

\* The i-th parameter of node n is declared with the other significance.
SetSignificant ==
  \E n \in Nodes :
    \E i \in 1..Len(task[n].params) :
      /\ task' = [task EXCEPT ![n].params[i].significant = ~@]
      /\ UNCHANGED source
      /\ Edited

\* The parameters of node n are declared in the opposite order.
ReorderParams ==
  \E n \in Nodes :
    /\ Len(task[n].params) > 1
    /\ task' = [task EXCEPT ![n].params = Reverse(@)]
    /\ UNCHANGED source
    /\ Edited

\* requires() of node n yields another list.
SetRequires ==
  \E n \in Nodes :
    \E r \in RequiresOf(n) :
      /\ r # task[n].requires
      /\ task' = [task EXCEPT ![n].requires = r]
      /\ UNCHANGED source
      /\ Edited

\* get_salted_version(task n) is called.
CallGetSaltedVersion ==
  \E n \in Nodes :
    /\ result' = [op |-> "get_salted_version", node |-> n,
                  value |-> get_salted_version(source, task, n)]
    /\ UNCHANGED <<source, task, old, stack, pc>>

\* (task n).salt_target(LocalTarget, file_pattern) is called.
CallSaltTarget ==
  \E n \in Nodes :
    \E file_pattern \in Patterns :
      /\ IsSalted(task[n].cls)
      /\ result' = [op |-> "salt_target", node |-> n, pattern |-> file_pattern,
                    value |-> salt_target(source, task, n, file_pattern)]
      /\ UNCHANGED <<source, task, old, stack, pc>>

Next ==
  \/ EditSource
  \/ SetParam
  \/ SetSignificant
  \/ ReorderParams
  \/ SetRequires
  \/ CallGetSaltedVersion
  \/ CallSaltTarget

Spec == Init /\ [][Next]_vars

(***************************************************************************)
(* What the properties speak about.                                        *)
(***************************************************************************)
\* The two definitions at hand: before and after the last edit.
Worlds == {old, Current}

\* Digest and hashed message of every node of both definitions.
DigestOf == [w \in Worlds |-> [n \in Nodes |-> get_salted_version(w.source, w.task, n)]]

MessageOf == [w \in Worlds |-> [n \in Nodes |-> message(w.source, w.task, n)]]

\* sha256 is treated as collision-free: among the messages at hand (msgs,
\* with their digests dg) no two different ones have the same digest.
CollisionFree(dg, msgs) ==
  \A w1 \in Worlds, w2 \in Worlds, n1 \in Nodes, n2 \in Nodes :
    dg[w1][n1] = dg[w2][n2] => msgs[w1][n1] = msgs[w2][n2]

\* The three things a digest is made of.
LogicText(w, n) == getsource(w.source, w.task[n].cls)

SignificantMap(t) ==
  {<<t.params[i].name, t.params[i].value>> :
     i \in {j \in 1..Len(t.params) : t.params[j].significant}}

UpstreamDigests(dg, w, n) ==
  [i \in 1..Len(w.task[n].requires) |-> dg[w][w.task[n].requires[i]]]

\* Nodes from which node b is reached through one or more requires() edges.
RECURSIVE ReachesIn(_, _, _, _)
ReachesIn(tk, a, b, fuel) ==
  /\ fuel > 0
  /\ \E i \in 1..Len(tk[a].requires) :
       tk[a].requires[i] = b \/ ReachesIn(tk, tk[a].requires[i], b, fuel - 1)

Reaches(tk, a, b) == ReachesIn(tk, a, b, MaxNodes)

\* The last edit changed node n only, and nothing but field f of it.
OnlyNodeChanged(n) ==
  /\ old.source = source
  /\ old.task[n] # task[n]
  /\ \A m \in Nodes \ {n} : old.task[m] = task[m]

\* The last edit gave the i-th parameter of node n another value.
ParamValueChanged(n, i) ==
  /\ OnlyNodeChanged(n)
  /\ old.task[n].requires = task[n].requires
  /\ Len(old.task[n].params) = Len(task[n].params)
  /\ i \in 1..Len(task[n].params)
  /\ old.task[n].params[i].value # task[n].params[i].value
  /\ old.task[n].params[i].name = task[n].params[i].name
  /\ old.task[n].params[i].significant = task[n].params[i].significant
  /\ \A j \in 1..Len(task[n].params) : j # i => old.task[n].params[j] = task[n].params[j]

(***************************************************************************)
(* C1: get_salted_version depends only on the logic text, the map of the   *)
(* significant parameters and the ordered digests of the requirements:     *)
(* two nodes (of the definition before or after an edit) that agree on     *)
(* these three have equal digests, whatever their insignificant parameters *)
(* and the order their parameters are declared in: the digest a call on a  *)
(* node returns is the digest of every node that agrees with it.           *)
(***************************************************************************)
AgreeOnIdentity(dg, w1, n1, w2, n2) ==
  /\ LogicText(w1, n1) = LogicText(w2, n2)
  /\ SignificantMap(w1.task[n1]) = SignificantMap(w2.task[n2])
  /\ UpstreamDigests(dg, w1, n1) = UpstreamDigests(dg, w2, n2)

C1_DependsOnlyOnIdentity ==
  result.op = "get_salted_version" =>
    LET dg == DigestOf
    IN  \A w \in Worlds, n \in Nodes :
          AgreeOnIdentity(dg, Current, result.node, w, n) => result.value = dg[w][n]

\* A call on a node whose parameters differ from those of the same node
\* before the edit, in an insignificant value or in declaration order only.
C1_Witness ==
  LET dg == DigestOf
  IN  /\ result.op = "get_salted_version"
      /\ old.task[result.node].params # task[result.node].params
      /\ AgreeOnIdentity(dg, old, result.node, Current, result.node)
      /\ \E i \in 1..Len(task[result.node].params) :
           \/ old.task[result.node].params[i].name # task[result.node].params[i].name
           \/ /\ ~task[result.node].params[i].significant
              /\ old.task[result.node].params[i].value # task[result.node].params[i].value

(***************************************************************************)
(* C2: lineage sensitivity is transitive.  When an edit changes nothing    *)
(* but the value of a significant parameter of node b, a call on b and a   *)
(* call on any node that reaches b through requires() edges return another *)
(* digest than before the edit (sha256 treated as collision-free).         *)
(***************************************************************************)
SignificantValueChanged(b) ==
  \E i \in 1..Len(task[b].params) :
    ParamValueChanged(b, i) /\ task[b].params[i].significant

C2_LineageSensitivity ==
  \A b \in Nodes :
    (/\ result.op = "get_salted_version"
     /\ SignificantValueChanged(b)
     /\ result.node = b \/ Reaches(task, result.node, b)
     /\ CollisionFree(DigestOf, MessageOf))
      => result.value # get_salted_version(old.source, old.task, result.node)

\* A call on a node that reaches the edited node through another node, and
\* not directly.
C2_Witness ==
  /\ result.op = "get_salted_version"
  /\ CollisionFree(DigestOf, MessageOf)
  /\ \E b \in Nodes :
       /\ SignificantValueChanged(b)
       /\ Reaches(task, result.node, b)
       /\ \A i \in 1..Len(task[result.node].requires) : task[result.node].requires[i] # b
       /\ result.value # DigestOf[old][result.node]

(***************************************************************************)
(* C3: salt_parameters is cosmetic.  When an edit changes nothing but the  *)
(* value of salt_parameters of a node, the digest of the node, and so the  *)
(* salt in its path, stay the same.                                        *)
(***************************************************************************)
C3_SaltParametersCosmetic ==
  \A n \in Nodes :
    \A i \in 1..Len(task[n].params) :
      (ParamValueChanged(n, i) /\ task[n].params[i].name = "salt_parameters") =>
        /\ DigestOf[old][n] = DigestOf[Current][n]
        /\ \A file_pattern \in Patterns :
             salt_target(old.source, old.task, n, file_pattern)
               = salt_target(source, task, n, file_pattern)

(***************************************************************************)
(* C4: with salt_workflow False the path salt_target returns is unsalted:  *)
(* it holds nothing of the digest of the node.                             *)
(***************************************************************************)
Contains(s, sub) ==
  \E i \in 1..(Len(s) - Len(sub) + 1) : SubSeq(s, i, i + Len(sub) - 1) = sub

C4_UnsaltedWhenDisabled ==
  (/\ result.op = "salt_target"
   /\ ParamValue(task[result.node], "salt_workflow") = PyBool(FALSE)) =>
     /\ result.value = format(result.pattern, "")
     /\ ~Contains(result.value,
                  SliceTo(get_salted_version(source, task, result.node),
                          ParamValue(task[result.node], "salt_length").v))

(***************************************************************************)
(* C5: for salt_length k >= 1 the text put in place of {salt} is the first *)
(* min(k, length of the digest) characters of the digest of the same node: *)
(* the path for 'out-{salt}.csv' is 'out-', these characters, '.csv'.      *)
(***************************************************************************)
C5_SaltIsDigestPrefix ==
  (/\ result.op = "salt_target"
   /\ result.pattern = "out-{salt}.csv"
   /\ ParamValue(task[result.node], "salt_length").v >= 1) =>
     LET k == ParamValue(task[result.node], "salt_length").v
         d == get_salted_version(source, task, result.node)
     IN  /\ Len(result.value) = 4 + Min(k, Len(d)) + 4
         /\ SubSeq(result.value, 1, 4) = "out-"
         /\ \A j \in 1..Min(k, Len(d)) : Chr(result.value, 4 + j) = Chr(d, j)
         /\ SubSeq(result.value, 5 + Min(k, Len(d)), Len(result.value)) = ".csv"

\* A path made with a salt_length beyond the length of the digest.
C5_Witness ==
  /\ result.op = "salt_target"
  /\ ParamValue(task[result.node], "salt_length").v
       > Len(get_salted_version(source, task, result.node))
  /\ result.value = "out-" \o get_salted_version(source, task, result.node) \o ".csv"

(***************************************************************************)
(* C6: the message of a node without requirements, with logic text "L"     *)
(* and date = 2018-03-07 as its one significant parameter.                 *)
(***************************************************************************)
IsLeafScenario(n) ==
  /\ task[n].requires = <<>>
  /\ LogicText(Current, n) = "L"
  /\ SignificantMap(task[n]) = {<<"date", PyDate(2018, 3, 7)>>}

\* C6 as claimed: the message is the logic text immediately followed by
\* date=2018-03-07.
C6_MessageAsClaimed ==
  \A n \in Nodes :
    IsLeafScenario(n) =>
      /\ message(source, task, n) = "Ldate=2018-03-07"
      /\ (result.op = "get_salted_version" /\ result.node = n)
           => result.value = sha256("Ldate=2018-03-07")

\* C6 as amended: the message is the logic text, a comma, and date=
\* followed by the repr() of the value; the digest is the sha256 of that.
C6_MessageIsJoinedRepr ==
  \A n \in Nodes :
    IsLeafScenario(n) =>
      /\ message(source, task, n) = "L,date=datetime.date(2018, 3, 7)"
      /\ (result.op = "get_salted_version" /\ result.node = n)
           => result.value = sha256("L,date=datetime.date(2018, 3, 7)")

C6_Witness ==
  /\ result.op = "get_salted_version"
  /\ IsLeafScenario(result.node)

(***************************************************************************)
(* C7: any change of the logic a task executes, in its own class or in a   *)
(* class it inherits from, changes its digest when its parameters and its  *)
(* lineage stay the same (sha256 treated as collision-free).               *)
(***************************************************************************)
C7_LogicChangeChangesDigest ==
  LET dg == DigestOf
  IN  \A n \in Nodes :
        (/\ old.task = task
         /\ Logic(old.source, task[n].cls) # Logic(source, task[n].cls)
         /\ UpstreamDigests(dg, old, n) = UpstreamDigests(dg, Current, n)
         /\ CollisionFree(dg, MessageOf))
          => dg[old][n] # dg[Current][n]

(***************************************************************************)
(* C8: the order requires() enumerates the requirements in is load-        *)
(* bearing.  The message of the node a call is made on starts with the     *)
(* digests of its requirements in that order, and when an edit only swaps  *)
(* two requirements of different digests, the call returns another digest  *)
(* than before the edit (sha256 treated as collision-free).                *)
(***************************************************************************)
RequiresSwapped(n) ==
  /\ OnlyNodeChanged(n)
  /\ old.task[n].params = task[n].params
  /\ Len(task[n].requires) = 2
  /\ old.task[n].requires = Reverse(task[n].requires)

C8_RequirementOrderMatters ==
  result.op = "get_salted_version" =>
    LET n == result.node
        r == task[n].requires
        m == message(source, task, n)
    IN  /\ Len(m) >= Len(r) * DigestLen
        /\ \A i \in 1..Len(r) :
             SubSeq(m, (i - 1) * DigestLen + 1, i * DigestLen)
               = get_salted_version(source, task, r[i])
        /\ (/\ RequiresSwapped(n)
            /\ get_salted_version(source, task, r[1]) # get_salted_version(source, task, r[2])
            /\ CollisionFree(DigestOf, MessageOf))
             => result.value # get_salted_version(old.source, old.task, n)

C8_Witness ==
  /\ result.op = "get_salted_version"
  /\ RequiresSwapped(result.node)
  /\ CollisionFree(DigestOf, MessageOf)
  /\ DigestOf[Current][task[result.node].requires[1]]
       # DigestOf[Current][task[result.node].requires[2]]
  /\ result.value # DigestOf[old][result.node]

(***************************************************************************)
(* C10: the message is an injective encoding: two nodes that differ in the *)
(* ordered digests of their requirements, in their logic text or in their  *)
(* significant name=value pairs never have the same message.               *)
(***************************************************************************)
C10_MessageInjective ==
  LET dg == DigestOf
      mg == MessageOf
  IN  \A w1 \in Worlds, w2 \in Worlds, n1 \in Nodes, n2 \in Nodes :
        ~AgreeOnIdentity(dg, w1, n1, w2, n2) => mg[w1][n1] # mg[w2][n2]

(***************************************************************************)
(* get_salted_version step by step: the stack of its nested calls.  A      *)
(* frame is [node, i, msg]: the task, the place of the loop of lines 41-44 *)
(* in flatten(task.requires()), and msg so far.  The workflow is any graph *)
(* of requirements, cyclic ones included; the call is made on node 1.      *)
(***************************************************************************)
RecNodes == 1..(RecursionLimit + 1)

Root == 1

\* Requirement lists of node n: none, the next node, the next node and the
\* last one, or an edge back to the first node or to itself.
RecRequiresOf(n) ==
  IF n = RecursionLimit + 1 THEN {<<>>, <<Root>>, <<n>>}
  ELSE {<<>>, <<n + 1>>, <<n + 1, RecursionLimit + 1>>, <<n + 1, n>>}

InitRec ==
  /\ source = InitSource
  /\ \E r \in [RecNodes -> UNION {RecRequiresOf(n) : n \in RecNodes}] :
       /\ \A n \in RecNodes : r[n] \in RecRequiresOf(n)
       /\ task = [n \in RecNodes |-> NewTask("Streams", r[n])]
  /\ old = [source |-> source, task |-> task]
  /\ result = NoCall
  /\ stack = <<>>
  /\ pc = "idle"

Frame(n) == [node |-> n, i |-> 1, msg |-> ""]

Top == stack[Len(stack)]

\* The caller calls get_salted_version(task Root).
RecCall ==
  /\ pc = "idle"
  /\ stack' = <<Frame(Root)>>
  /\ pc' = "running"
  /\ UNCHANGED <<source, task, old, result>>

\* Line 44: the call on the next requirement gets a frame of its own.
RecDescend ==
  /\ pc = "running"
  /\ Top.i <= Len(task[Top.node].requires)
  /\ Len(stack) < RecursionLimit
  /\ stack' = Append(stack, Frame(task[Top.node].requires[Top.i]))
  /\ UNCHANGED <<source, task, old, result, pc>>

\* (variant for C9: with no frame left the call gives up and returns the
\* digest of nothing)
RecOverflowSwallowed ==
  /\ pc = "running"
  /\ Top.i <= Len(task[Top.node].requires)
  /\ Len(stack) >= RecursionLimit
  /\ stack' = <<>>
  /\ pc' = "done"
  /\ result' = [op |-> "get_salted_version", node |-> Root, value |-> sha256("")]
  /\ UNCHANGED <<source, task, old>>

\* Line 44, with no frame left: RecursionError unwinds every call.
RecOverflow ==
  /\ pc = "running"
  /\ Top.i <= Len(task[Top.node].requires)
  /\ Len(stack) >= RecursionLimit
  /\ stack' = <<>>
  /\ pc' = "error"
  /\ result' = [op |-> "get_salted_version", node |-> Root, error |-> "RecursionError"]
  /\ UNCHANGED <<source, task, old>>

\* Lines 47-63 of a nested call, and msg += of line 44 in its caller.
RecReturn ==
  /\ pc = "running"
  /\ Top.i > Len(task[Top.node].requires)
  /\ Len(stack) > 1
  /\ LET digest == sha256(Top.msg \o self_message(source, task[Top.node]))
         caller == stack[Len(stack) - 1]
     IN  stack' = [SubSeq(stack, 1, Len(stack) - 1) EXCEPT
                     ![Len(stack) - 1] = [caller EXCEPT !.msg = @ \o digest, !.i = @ + 1]]
  /\ UNCHANGED <<source, task, old, result, pc>>

\* Lines 47-63 of the outermost call: the caller gets the digest.
RecFinish ==
  /\ pc = "running"
  /\ Top.i > Len(task[Top.node].requires)
  /\ Len(stack) = 1
  /\ result' = [op |-> "get_salted_version", node |-> Top.node,
                value |-> sha256(Top.msg \o self_message(source, task[Top.node]))]
  /\ stack' = <<>>
  /\ pc' = "done"
  /\ UNCHANGED <<source, task, old>>

NextRec ==
  \/ RecCall
  \/ RecDescend
  \/ RecOverflow
  \/ RecReturn
  \/ RecFinish

\* The interpreter runs the call on: a step that can be taken is taken.
SpecRec == InitRec /\ [][NextRec]_vars /\ WF_vars(NextRec)

\* There is a chain of k nodes, each requiring the next, that starts at n.
RECURSIVE ChainAtLeast(_, _, _)
ChainAtLeast(tk, n, k) ==
  \/ k <= 1
  \/ \E i \in 1..Len(tk[n].requires) : ChainAtLeast(tk, tk[n].requires[i], k - 1)

\* A cycle is reached from n: there are chains longer than the graph.
CycleReachable(tk, n) == ChainAtLeast(tk, n, Cardinality(DOMAIN tk) + 1)

(***************************************************************************)
(* C9: the call returns a digest for every finite acyclic graph, and ends  *)
(* in a fatal error, never a digest, when a cycle is reachable.            *)
(***************************************************************************)
\* C9 as claimed: the call ends in an error only when a cycle is reachable,
\* and in a digest only when none is.
C9_ErrorOnlyOnCycle ==
  /\ pc = "error" => CycleReachable(task, Root)
  /\ pc = "done" => ~CycleReachable(task, Root)

\* C9 as amended: the call always ends; it returns the digest exactly when no
\* chain of requirements from the task is longer than the frames the
\* interpreter has left, and ends in RecursionError otherwise, on every
\* cycle in particular.
C9_DigestWithinRecursionLimit ==
  /\ [](pc = "done" =>
          /\ ~ChainAtLeast(task, Root, RecursionLimit + 1)
          /\ result.value = get_salted_version(source, task, Root))
  /\ [](pc = "error" =>
          /\ ChainAtLeast(task, Root, RecursionLimit + 1)
          /\ result.error = "RecursionError")
  /\ [](CycleReachable(task, Root) => pc # "done")
  /\ <>(pc \in {"done", "error"})

\* A digest returned for a graph with fan-in: a node reached along two
\* paths from the task.
C9_Witness ==
  /\ pc = "done"
  /\ \E a \in DOMAIN task, b \in DOMAIN task :
       /\ a # b
       /\ Len(task[Root].requires) = 2
       /\ task[Root].requires[1] = a
       /\ task[Root].requires[2] = b
       /\ \E i \in 1..Len(task[a].requires) : task[a].requires[i] = b
  /\ result.value = get_salted_version(source, task, Root)

====
